---- MODULE Spec2Model ----
(***************************************************************************)
(* Model of the Mindflow command line (src/mindflow/main.py).             *)
(*                                                                         *)
(* One process invocation `mf <command> [<args>]` is: main (the shell      *)
(* hands argv and an environment to the process), __init__ (the           *)
(* dispatcher), one of the handlers auth / ask / diff / query / q, and    *)
(* Return (back at the shell).  The token store is the only state that    *)
(* survives an invocation.                                                 *)
(*                                                                         *)
(* Strings of the command line are TLA+ strings.  A text that is          *)
(* assembled by the program (a prompt, a response, a printed line) is a    *)
(* sequence of pieces, concatenated with \o; the empty text is << >>.     *)
(* An optional value (Python None or a value) is << >> or << v >>.        *)
(***************************************************************************)
EXTENDS Integers, Sequences, FiniteSets, TLC

(***************************************************************************)
(* Bounds of the model.                                                    *)
(***************************************************************************)
\* Longest argument list after the subcommand name (sys.argv[2:]).
MaxArgs == 3
\* Depth at which the interpreter stops a runaway recursion of __init__.
RecursionLimit == 2

(***************************************************************************)
(* The universe of command-line strings.                                   *)
(***************************************************************************)
\* Methods of class MindFlow that the dispatcher is meant to reach.
KnownCommands == {"diff", "query", "q", "ask", "auth"}

\* First-argument strings tried: the five subcommands, a name that is no
\* attribute, four names every Python object has as attributes, an option.
CommandStrings ==
  KnownCommands \cup {"foo", "__init__", "__class__", "__doc__", "__str__", "-h"}

\* Strings tried after the subcommand name.
ArgStrings == {"", "p", "r", "-s", "-h"}

\* Strings that begin with the prefix character '-' (argparse reads them
\* as option strings, never as positional values).
DashStrings ==
  {"-s", "--skip-response", "-t", "--skip-clipboard", "-h", "--help", "-x"}

HelpStrings == {"-h", "--help"}

(***************************************************************************)
(* Texts.                                                                  *)
(***************************************************************************)
\* The text of a command-line string: "" is the empty text.
Str(s) == IF s = "" THEN << >> ELSE << s >>

RECURSIVE Join(_)
\* Concatenation of a sequence of texts.
Join(ts) == IF ts = << >> THEN << >> ELSE Head(ts) \o Join(Tail(ts))

SeqContains(seq, x) == \E i \in 1..Len(seq) : seq[i] = x

(***************************************************************************)
(* argparse.  A parser is its positional arguments in order (dest, nargs)  *)
(* and its store_true flags (option string -> dest); every parser also     *)
(* has -h/--help.                                                          *)
(***************************************************************************)
Dests == {"command", "query", "references", "diffargs", "token", "prompt"}
FlagDests == {"skip_response", "skip_clipboard"}

SkipFlags ==
  [s \in {"-s", "--skip-response", "-t", "--skip-clipboard"} |->
     IF s \in {"-s", "--skip-response"} THEN "skip_response" ELSE "skip_clipboard"]

NoFlags == [s \in {} |-> "skip_response"]

\* parser of MindFlow.__init__: one positional, `command`.
MainParser ==
  [pos |-> << [dest |-> "command", nargs |-> "1"] >>, flags |-> NoFlags]

_add_reference_args ==
  [pos |-> << [dest |-> "query", nargs |-> "1"],
              [dest |-> "references", nargs |-> "+"] >>,
   flags |-> SkipFlags]

_add_diff_args ==
  [pos |-> << [dest |-> "diffargs", nargs |-> "*"] >>, flags |-> SkipFlags]

_add_auth_args ==
  [pos |-> << [dest |-> "token", nargs |-> "?"] >>, flags |-> NoFlags]

_add_ask_args ==
  [pos |-> << [dest |-> "prompt", nargs |-> "1"] >>, flags |-> SkipFlags]

\* Fewest and most argument strings a positional of the given nargs takes.
MinTake(nargs) == IF nargs \in {"1", "+"} THEN 1 ELSE 0
MaxTake(nargs, avail) == IF nargs \in {"1", "?"} THEN 1 ELSE avail

RECURSIVE SumMin(_, _)
\* Fewest strings the first k positionals of `pos` need together.
SumMin(pos, k) == IF k = 0 THEN 0 ELSE SumMin(pos, k - 1) + MinTake(pos[k].nargs)

\* The empty namespace: every dest unset, every flag False.
EmptyNamespace ==
  [vals |-> [d \in Dests |-> << >>], flags |-> [f \in FlagDests |-> FALSE]]

\* Strings positional j takes of n when positionals j+1..k need `later`.
Take(nargs, n, later) ==
  IF MaxTake(nargs, n) < n - later THEN MaxTake(nargs, n) ELSE n - later

\* The values `rest` with dest |-> value added.
WithDest(rest, dest, value) ==
  [d \in DOMAIN rest \cup {dest} |-> IF d = dest THEN value ELSE rest[d]]

RECURSIVE Allot(_, _, _, _, _, _)
AllotTake(pos, j, k, args, i, n, take) ==
  WithDest(Allot(pos, j + 1, k, args, i + take, n - take),
           pos[j].dest, SubSeq(args, i, i + take - 1))

\* argparse's greedy match: positionals j..k of pos share the n strings of
\* args from index i; each takes as many as it may while the later ones
\* keep their minimum.
Allot(pos, j, k, args, i, n) ==
  IF j > k THEN [d \in {} |-> << >>]
  ELSE AllotTake(pos, j, k, args, i, n,
                 Take(pos[j].nargs, n, SumMin(pos, k) - SumMin(pos, j)))

\* Most positionals of posLeft, taken from the front, that n strings can fill.
MaxPrefix(posLeft, n) ==
  CHOOSE k \in 0..Len(posLeft) :
    /\ SumMin(posLeft, k) <= n
    /\ \A y \in (k + 1)..Len(posLeft) : SumMin(posLeft, y) > n

RECURSIVE Taken(_, _, _)
\* Number of strings the first k positionals of posLeft were given in got.
Taken(posLeft, k, got) ==
  IF k = 0 THEN 0 ELSE Taken(posLeft, k - 1, got) + Len(got[posLeft[k].dest])

Consumed(posLeft, i, k, got) ==
  [got |-> got, next |-> i + Taken(posLeft, k, got),
   left |-> SubSeq(posLeft, k + 1, Len(posLeft))]

ConsumePrefix(posLeft, args, i, n, k) ==
  Consumed(posLeft, i, k, Allot(posLeft, 1, k, args, i, n))

\* consume_positionals: the longest prefix of the positionals still to fill
\* that the run of n positional strings at index i can match.
ConsumePositionals(posLeft, args, i, n) ==
  ConsumePrefix(posLeft, args, i, n, MaxPrefix(posLeft, n))

\* Namespace ns with the positional values of `got` stored.
WithValues(ns, got) ==
  [ns EXCEPT !.vals = [d \in Dests |-> IF d \in DOMAIN got THEN got[d] ELSE ns.vals[d]]]

\* Index of the first option string of args at or after i (0: there is none).
NextOption(args, i) ==
  IF \A j \in i..Len(args) : args[j] \notin DashStrings
  THEN 0
  ELSE CHOOSE j \in i..Len(args) :
         /\ args[j] \in DashStrings
         /\ \A k \in i..(j - 1) : args[k] \notin DashStrings

\* After the last option string: the remaining positionals are consumed (c),
\* a required positional left unfilled or a string left over is an error.
ParseEnd(args, ns, extras, c) ==
  IF \E m \in 1..Len(c.left) : MinTake(c.left[m].nargs) = 1
  THEN [kind |-> "error", ns |-> EmptyNamespace]
  ELSE IF extras \o SubSeq(args, c.next, Len(args)) # << >>
  THEN [kind |-> "error", ns |-> EmptyNamespace]
  ELSE [kind |-> "ok", ns |-> WithValues(ns, c.got)]

RECURSIVE ParseFrom(_, _, _, _, _, _)
\* consume_optional at index nxt: -h prints the help and exits, a flag of
\* the parser is stored, any other option string is left over.
ParseOption(parser, args, nxt, posLeft, ns, extras) ==
  IF args[nxt] \in HelpStrings
  THEN [kind |-> "help", ns |-> EmptyNamespace]
  ELSE IF args[nxt] \in DOMAIN parser.flags
  THEN ParseFrom(parser, args, nxt + 1, posLeft,
                 [ns EXCEPT !.flags[parser.flags[args[nxt]]] = TRUE], extras)
  ELSE ParseFrom(parser, args, nxt + 1, posLeft, ns, Append(extras, args[nxt]))

\* Before the option string at nxt: the positional strings in front of it
\* are consumed (c); what no positional takes is left over.
ParseBefore(parser, args, i, posLeft, ns, extras, nxt, c) ==
  IF i # nxt /\ c.next > i
  THEN ParseFrom(parser, args, c.next, c.left, WithValues(ns, c.got), extras)
  ELSE ParseOption(parser, args, nxt, posLeft, ns, extras \o SubSeq(args, i, nxt - 1))

ParseAt(parser, args, i, posLeft, ns, extras, nxt) ==
  IF nxt = 0
  THEN ParseEnd(args, ns, extras,
                ConsumePositionals(posLeft, args, i, Len(args) - i + 1))
  ELSE ParseBefore(parser, args, i, posLeft, ns, extras, nxt,
                   ConsumePositionals(posLeft, args, i, nxt - i))

\* ArgumentParser._parse_known_args followed by parse_args' check of the
\* extras.  Result: kind "ok" with the namespace, "help" (-h: help printed,
\* exit 0) or "error" (usage and message on stderr, exit 2).
ParseFrom(parser, args, i, posLeft, ns, extras) ==
  ParseAt(parser, args, i, posLeft, ns, extras, NextOption(args, i))

\* parser.parse_args(args)
parse_args(parser, args) == ParseFrom(parser, args, 1, parser.pos, EmptyNamespace, << >>)

(***************************************************************************)
(* The collaborators main.py imports: mindflow.utils.token,                *)
(* mindflow.requests.response, mindflow.prompt_generator and               *)
(* mindflow.requests.query.  st is the token store, e the environment of   *)
(* the invocation.                                                         *)
(***************************************************************************)
\* Token store: Unset, or Set(value) with the value last persisted.
Unset == [set |-> FALSE, value |-> << >>]

\* set_token(token): persists the given value, overwriting any previous one.
set_token(st, token) == [set |-> TRUE, value |-> token]

\* getToken(): the stored value, or NoTokenError when there is none.
get_token(st) ==
  IF st.set /\ st.value # << >>
  THEN [err |-> "", token |-> st.value[1]]
  ELSE [err |-> "NoTokenError", token |-> ""]

\* The remote completion API's answer to a prompt.
Completion(prompt) == << "RESPONSE" >> \o prompt

\* The exchange with the remote API once the token is read.
Request(prompt, token, e) ==
  IF e.service = "reject"
  THEN [err |-> "AuthenticationError", text |-> << >>,
        net |-> << [prompt |-> prompt, token |-> token] >>]
  ELSE IF e.service = "fail"
  THEN [err |-> "ServiceError", text |-> << >>,
        net |-> << [prompt |-> prompt, token |-> token] >>]
  ELSE [err |-> "", text |-> Completion(prompt),
        net |-> << [prompt |-> prompt, token |-> token] >>]

\* get_response as it would be without the check of the prompt.
get_response_unchecked(prompt, st, e) ==
  IF get_token(st).err # ""
  THEN [err |-> get_token(st).err, text |-> << >>, net |-> << >>]
  ELSE Request(prompt, get_token(st).token, e)

\* get_response as it would be if it sent the request whatever the store holds.
get_response_noauth(prompt, st, e) ==
  IF prompt = << >>
  THEN [err |-> "EmptyPromptError", text |-> << >>, net |-> << >>]
  ELSE Request(prompt, get_token(st).token, e)

\* get_response(prompt): the Response Client.  Empty prompts and a missing
\* token are refused before the request; the request carries the token.
get_response(prompt, st, e) ==
  IF prompt = << >>
  THEN [err |-> "EmptyPromptError", text |-> << >>, net |-> << >>]
  ELSE IF get_token(st).err # ""
  THEN [err |-> get_token(st).err, text |-> << >>, net |-> << >>]
  ELSE Request(prompt, get_token(st).token, e)

\* generate_diff_prompt(args): the output of `git diff <diffargs>` wrapped
\* in the fixed template, or DiffUnavailableError.
generate_diff_prompt(ns, e) ==
  IF e.git = "fail"
  THEN [err |-> "DiffUnavailableError", prompt |-> << >>]
  ELSE [err |-> "",
        prompt |-> << "DIFF_TEMPLATE", "git diff" >>
                     \o Join([i \in 1..Len(ns.vals["diffargs"]) |->
                                Str(ns.vals["diffargs"][i])])]

\* A reference resolves when it names an existing file, folder or URL.
Resolvable(ref, e) == ref # "" /\ ref \notin e.bad

\* The corpus: each reference's content tagged with its name, in list order.
Corpus(refs) == Join([i \in 1..Len(refs) |-> << "REF", refs[i], "CONTENT", refs[i] >>])

\* QueryRequestHandler(query, references).query(): resolve the references
\* in order, assemble query + corpus, send it through the Response Client.
QueryRequestHandler_query(query, refs, st, e) ==
  IF \E i \in 1..Len(refs) : ~Resolvable(refs[i], e)
  THEN [err |-> "UnresolvableReferenceError", text |-> << >>, net |-> << >>,
        rc |-> << >>, prompt |-> << >>]
  ELSE LET prompt == Str(query) \o Corpus(refs)
           r      == get_response(prompt, st, e)
       IN  [err |-> r.err, text |-> r.text, net |-> r.net,
            rc |-> << prompt >>, prompt |-> << prompt >>]

(***************************************************************************)
(* State.                                                                  *)
(***************************************************************************)
VARIABLES
  store,        \* the persisted token (survives the process)
  argv,         \* sys.argv[1:] of the running invocation
  env,          \* git, the filesystem and the remote service, as this invocation meets them
  pc,           \* "idle" | "init" | the handler dispatched to | "done"
  depth,        \* nesting of __init__ calls
  stdout,       \* texts printed to standard output
  stderr,       \* usage and error reports on standard error
  exit,         \* exit status; -1 while the process runs
  handlersRun,  \* subcommand handlers the dispatcher has called
  prompt,       \* the prompt assembled by the handler, if any
  rcCalls,      \* prompts passed to get_response
  qhCalls,      \* (query, references) passed to QueryRequestHandler
  netReqs,      \* requests issued to the remote completion API
  storeBefore,  \* the token store when the invocation started
  lastAuth,     \* args.token of the latest auth handler run, if any
  snap          \* outcome of the invocation an alias rerun is compared with

vars == << store, argv, env, pc, depth, stdout, stderr, exit, handlersRun, prompt,
           rcCalls, qhCalls, netReqs, storeBefore, lastAuth, snap >>

\* Environments: only what the subcommand can observe varies.
Envs(cmd) ==
  [git     : IF cmd = "diff" THEN {"ok", "fail"} ELSE {"ok"},
   service : IF cmd \in {"ask", "diff", "query", "q"} THEN {"ok", "reject", "fail"} ELSE {"ok"},
   bad     : IF cmd \in {"query", "q"} THEN {{}, {"r"}} ELSE {{}}]

RECURSIVE SeqsUpTo(_, _)
\* Sequences over S of length at most n.
SeqsUpTo(S, n) ==
  IF n = 0 THEN {<< >>}
  ELSE LET shorter == SeqsUpTo(S, n - 1)
       IN  shorter \cup {Append(s, x) : s \in {t \in shorter : Len(t) = n - 1}, x \in S}

\* Command lines tried: no argument at all, or a command and its arguments.
ArgLists == SeqsUpTo(ArgStrings, MaxArgs)
Argvs == {<< >>} \cup {<< c >> \o rest : c \in CommandStrings, rest \in ArgLists}

Init ==
  /\ store = Unset
  /\ argv = << >>
  /\ env = [git |-> "ok", service |-> "ok", bad |-> {}]
  /\ pc = "idle"
  /\ depth = 0
  /\ stdout = << >>
  /\ stderr = << >>
  /\ exit = -1
  /\ handlersRun = << >>
  /\ prompt = << >>
  /\ rcCalls = << >>
  /\ qhCalls = << >>
  /\ netReqs = << >>
  /\ storeBefore = Unset
  /\ lastAuth = << >>
  /\ snap = << >>

\* A fresh process: nothing printed, nothing called yet.
Fresh(a, e) ==
  /\ argv' = a
  /\ env' = e
  /\ pc' = "init"
  /\ depth' = 0
  /\ stdout' = << >>
  /\ stderr' = << >>
  /\ exit' = -1
  /\ handlersRun' = << >>
  /\ prompt' = << >>
  /\ rcCalls' = << >>
  /\ qhCalls' = << >>
  /\ netReqs' = << >>
  /\ storeBefore' = store
  /\ UNCHANGED << store, lastAuth >>

\* main(): the shell starts `mf` with some command line.
main ==
  /\ pc = "idle"
  /\ \E a \in Argvs :
       \E e \in Envs(IF a = << >> THEN "" ELSE a[1]) : Fresh(a, e)
  /\ snap' = << >>

\* The process has exited and the shell is back at its prompt: of the
\* invocation only the token store is left.
Return ==
  /\ pc = "done"
  /\ pc' = "idle"
  /\ argv' = << >>
  /\ env' = [git |-> "ok", service |-> "ok", bad |-> {}]
  /\ depth' = 0
  /\ stdout' = << >>
  /\ stderr' = << >>
  /\ exit' = -1
  /\ handlersRun' = << >>
  /\ prompt' = << >>
  /\ rcCalls' = << >>
  /\ qhCalls' = << >>
  /\ netReqs' = << >>
  /\ storeBefore' = store
  /\ snap' = << >>
  /\ UNCHANGED << store, lastAuth >>

\* The process ends: out and err are appended, the exit status is set.
Exit(out, err, code) ==
  /\ stdout' = stdout \o out
  /\ stderr' = stderr \o err
  /\ exit' = code
  /\ pc' = "done"

HelpText(description) == << "usage", description >>

\* hasattr(self, name) for the names tried.
HasAttr(name) ==
  name \in KnownCommands \cup {"__init__", "__class__", "__doc__", "__str__"}

\* MindFlow.__init__: parse the command, check it, dispatch.
__init__ ==
  /\ pc = "init"
  /\ LET r   == parse_args(MainParser, SubSeq(argv, 1, IF Len(argv) < 1 THEN Len(argv) ELSE 1))
         cmd == r.ns.vals["command"][1]
     IN  IF r.kind = "error"
         THEN /\ Exit(<< >>, << "MF_USAGE", "ArgumentError" >>, 2)
              /\ UNCHANGED << depth, handlersRun >>
         ELSE IF r.kind = "help"
         THEN /\ Exit(<< << "MF_USAGE", "MF_DESCRIPTION" >> >>, << >>, 0)
              /\ UNCHANGED << depth, handlersRun >>
         ELSE IF ~HasAttr(cmd)
         THEN /\ Exit(<< << "Unrecognized command" >>, << "MF_USAGE", "MF_DESCRIPTION" >> >>,
                      << >>, 1)
              /\ UNCHANGED << depth, handlersRun >>
         ELSE IF cmd \in KnownCommands
         THEN /\ pc' = cmd
              /\ handlersRun' = Append(handlersRun, cmd)
              /\ UNCHANGED << depth, stdout, stderr, exit >>
         ELSE IF cmd \in {"__init__", "__class__"}
         THEN \* self.__init__() or MindFlow(): the dispatcher calls itself
              IF depth < RecursionLimit
              THEN /\ depth' = depth + 1
                   /\ UNCHANGED << pc, stdout, stderr, exit, handlersRun >>
              ELSE /\ Exit(<< >>, << "RecursionError" >>, 1)
                   /\ UNCHANGED << depth, handlersRun >>
         ELSE IF cmd = "__doc__"
         THEN \* the attribute is no callable
              /\ Exit(<< >>, << "TypeError" >>, 1)
              /\ UNCHANGED << depth, handlersRun >>
         ELSE \* str(self): returns, nothing printed
              /\ Exit(<< >>, << >>, 0)
              /\ UNCHANGED << depth, handlersRun >>
  /\ UNCHANGED << store, argv, env, prompt, rcCalls, qhCalls, netReqs, storeBefore,
                  lastAuth, snap >>

\* sys.argv[2:]
Rest == SubSeq(argv, 2, Len(argv))

\* A handler whose parse_args did not return: help (exit 0) or error (exit 2).
ParseExit(r, description) ==
  IF r.kind = "help"
  THEN Exit(<< HelpText(description) >>, << >>, 0)
  ELSE Exit(<< >>, << "usage", "ArgumentError" >>, 2)

\* auth as it would be if it kept a token that is already stored.
auth_keep(r) ==
  IF r.kind # "ok"
  THEN /\ ParseExit(r, "Authorize User.")
       /\ UNCHANGED << store, lastAuth >>
  ELSE /\ store' = IF store.set THEN store ELSE set_token(store, r.ns.vals["token"])
       /\ lastAuth' = << r.ns.vals["token"] >>
       /\ Exit(<< >>, << >>, 0)

\* auth, once its arguments are parsed (r): set_token(args.token).
auth_parsed(r) ==
  IF r.kind # "ok"
  THEN /\ ParseExit(r, "Authorize User.")
       /\ UNCHANGED << store, lastAuth >>
  ELSE /\ store' = set_token(store, r.ns.vals["token"])
       /\ lastAuth' = << r.ns.vals["token"] >>
       /\ Exit(<< >>, << >>, 0)

\* MindFlow.auth
auth ==
  /\ pc = "auth"
  /\ auth_parsed(parse_args(_add_auth_args, Rest))
  /\ UNCHANGED << argv, env, depth, handlersRun, prompt, rcCalls, qhCalls, netReqs,
                  storeBefore, snap >>

\* respond as it would be if it caught the error and printed an empty answer.
respond_swallow(p, resp) ==
  /\ prompt' = << p >>
  /\ rcCalls' = Append(rcCalls, p)
  /\ netReqs' = netReqs \o resp.net
  /\ Exit(<< resp.text >>, << >>, 0)
  /\ UNCHANGED store

\* respond as it would be if it dropped a token the service rejects.
respond_forget(p, resp) ==
  /\ prompt' = << p >>
  /\ rcCalls' = Append(rcCalls, p)
  /\ netReqs' = netReqs \o resp.net
  /\ IF resp.err # ""
     THEN Exit(<< >>, << resp.err >>, 1)
     ELSE Exit(<< resp.text >>, << >>, 0)
  /\ store' = IF resp.err = "AuthenticationError" THEN Unset ELSE store

\* response = get_response(p); print(response): an exception of
\* get_response (resp.err) ends the process with a traceback, status 1.
respond(p, resp) ==
  /\ prompt' = << p >>
  /\ rcCalls' = Append(rcCalls, p)
  /\ netReqs' = netReqs \o resp.net
  /\ IF resp.err # ""
     THEN Exit(<< >>, << resp.err >>, 1)
     ELSE Exit(<< resp.text >>, << >>, 0)
  /\ UNCHANGED store

\* ask as it would be if it wrapped the prompt in a template.
ask_template(r) ==
  IF r.kind # "ok"
  THEN /\ ParseExit(r, "Prompt GPT model with basic request.")
       /\ UNCHANGED << store, prompt, rcCalls, netReqs >>
  ELSE respond(<< "ASK_TEMPLATE" >> \o Str(r.ns.vals["prompt"][1]),
               get_response(<< "ASK_TEMPLATE" >> \o Str(r.ns.vals["prompt"][1]),
                            store, env))

\* ask, once its arguments are parsed (r): get_response(args.prompt).
ask_parsed(r) ==
  IF r.kind # "ok"
  THEN /\ ParseExit(r, "Prompt GPT model with basic request.")
       /\ UNCHANGED << store, prompt, rcCalls, netReqs >>
  ELSE respond(Str(r.ns.vals["prompt"][1]),
               get_response(Str(r.ns.vals["prompt"][1]), store, env))

\* MindFlow.ask
ask ==
  /\ pc = "ask"
  /\ ask_parsed(parse_args(_add_ask_args, Rest))
  /\ UNCHANGED << argv, env, depth, handlersRun, qhCalls, storeBefore, lastAuth, snap >>

\* diff, once generate_diff_prompt(args) has returned or raised (g).
diff_prompted(g) ==
  IF g.err # ""
  THEN /\ Exit(<< >>, << g.err >>, 1)
       /\ UNCHANGED << store, prompt, rcCalls, netReqs >>
  ELSE respond(g.prompt, get_response(g.prompt, store, env))

\* diff, once its arguments are parsed (r).
diff_parsed(r) ==
  IF r.kind # "ok"
  THEN /\ ParseExit(r, "Summarize a git diff.")
       /\ UNCHANGED << store, prompt, rcCalls, netReqs >>
  ELSE diff_prompted(generate_diff_prompt(r.ns, env))

\* MindFlow.diff
diff ==
  /\ pc = "diff"
  /\ diff_parsed(parse_args(_add_diff_args, Rest))
  /\ UNCHANGED << argv, env, depth, handlersRun, qhCalls, storeBefore, lastAuth, snap >>

\* response = QueryRequestHandler(q0, refs).query(); print(response)
query_respond(q0, refs, resp) ==
  /\ qhCalls' = Append(qhCalls, [query |-> q0, references |-> refs])
  /\ prompt' = resp.prompt
  /\ rcCalls' = rcCalls \o resp.rc
  /\ netReqs' = netReqs \o resp.net
  /\ IF resp.err # ""
     THEN Exit(<< >>, << resp.err >>, 1)
     ELSE Exit(<< resp.text >>, << >>, 0)

\* query, once its arguments are parsed (r).
query_parsed(r) ==
  IF r.kind # "ok"
  THEN /\ ParseExit(r, "This command is use to query files, folders, and websites.")
       /\ UNCHANGED << prompt, rcCalls, qhCalls, netReqs >>
  ELSE query_respond(r.ns.vals["query"][1], r.ns.vals["references"],
                     QueryRequestHandler_query(r.ns.vals["query"][1],
                                               r.ns.vals["references"], store, env))

\* The body of MindFlow.query.
query_call ==
  /\ query_parsed(parse_args(_add_reference_args, Rest))
  /\ UNCHANGED << store, argv, env, depth, handlersRun, storeBefore, lastAuth, snap >>

\* MindFlow.query
query == pc = "query" /\ query_call

\* q as it would be with a parser of its own that lets the references be omitted.
q_optional_refs ==
  /\ pc = "q"
  /\ query_parsed(parse_args([pos |-> << [dest |-> "query", nargs |-> "1"],
                                         [dest |-> "references", nargs |-> "*"] >>,
                              flags |-> SkipFlags], Rest))
  /\ UNCHANGED << store, argv, env, depth, handlersRun, storeBefore, lastAuth, snap >>

\* MindFlow.q: alias for query
q == pc = "q" /\ query_call

\* What an invocation leaves behind that a user or a collaborator can see.
Outcome ==
  [stdout |-> stdout, stderr |-> stderr, exit |-> exit, qhCalls |-> qhCalls,
   rcCalls |-> rcCalls, netReqs |-> netReqs, store |-> store]

OtherAlias(c) == IF c = "q" THEN "query" ELSE "q"

\* The user repeats a finished `mf query <args>` as `mf q <args>` (or the
\* other way round) in the same environment; the first outcome is kept.
RerunAlias ==
  /\ pc = "done"
  /\ snap = << >>
  /\ argv # << >>
  /\ argv[1] \in {"q", "query"}
  /\ snap' = << [argv |-> argv, outcome |-> Outcome] >>
  /\ Fresh(<< OtherAlias(argv[1]) >> \o Rest, env)

Next == main \/ Return \/ __init__ \/ auth \/ ask \/ diff \/ query \/ q \/ RerunAlias

Spec == Init /\ [][Next]_vars

(***************************************************************************)
(* Vocabulary of the properties.                                           *)
(***************************************************************************)
\* The invocation has ended.
Done == pc = "done"

\* The subcommand string of the invocation ("" when there is none).
Command == IF argv = << >> THEN "" ELSE argv[1]

\* The store holds a token.
HasToken(st) == st.set /\ st.value # << >>

\* The usage text of the dispatcher was printed.
UsagePrinted ==
  \/ \E i \in 1..Len(stdout) : SeqContains(stdout[i], "MF_USAGE")
  \/ SeqContains(stderr, "MF_USAGE")

\* A response of the remote API was printed.
ResponsePrinted == \E i \in 1..Len(stdout) : SeqContains(stdout[i], "RESPONSE")

\* The invocation carries -s/--skip-response.
CarriesSkipResponse ==
  \E i \in 2..Len(argv) : argv[i] \in {"-s", "--skip-response"}

\* Error reports on standard error (the usage line is no report).
Reports == {i \in 1..Len(stderr) : stderr[i] \notin {"usage", "MF_USAGE"}}

\* Positional strings after the subcommand name.
Positionals == {i \in 2..Len(argv) : argv[i] \notin DashStrings}

\* The handler run met an error: its parser rejected the arguments, git or
\* a reference failed, or the Response Client refused or failed.
ErrorRaised ==
  \/ Command = "auth" /\ parse_args(_add_auth_args, Rest).kind = "error"
  \/ Command = "ask" /\ parse_args(_add_ask_args, Rest).kind = "error"
  \/ Command = "diff" /\ parse_args(_add_diff_args, Rest).kind = "error"
  \/ Command \in {"q", "query"} /\ parse_args(_add_reference_args, Rest).kind = "error"
  \/ Command = "diff" /\ parse_args(_add_diff_args, Rest).kind = "ok" /\ env.git = "fail"
  \/ \E i \in 1..Len(qhCalls) : \E j \in 1..Len(qhCalls[i].references) :
       ~Resolvable(qhCalls[i].references[j], env)
  \/ \E i \in 1..Len(rcCalls) : rcCalls[i] = << >> \/ ~HasToken(storeBefore)
  \/ netReqs # << >> /\ env.service # "ok"

(***************************************************************************)
(* C1.  An unknown subcommand string is rejected.                          *)
(***************************************************************************)
\* C1: whenever an invocation whose subcommand string is not one of diff,
\* query, q, ask, auth has ended, usage was printed, the exit status is
\* non-zero, no handler ran, no collaborator was called and the token store
\* is as it was.  (Fails: hasattr accepts every attribute name.)
C1_UnknownCommandRejected ==
  (Done /\ Command \notin KnownCommands \cup DashStrings \cup {""})
    => /\ UsagePrinted
       /\ exit # 0
       /\ handlersRun = << >>
       /\ rcCalls = << >> /\ qhCalls = << >> /\ netReqs = << >>
       /\ store = storeBefore

(***************************************************************************)
(* C2.  --skip-response.                                                   *)
(***************************************************************************)
\* C2: whenever an invocation of ask, diff, query or q that carries
\* -s/--skip-response has ended, neither get_response nor
\* QueryRequestHandler.query was called, and if a prompt was assembled it
\* is what was printed.  (Fails: no handler reads args.skip_response.)
C2_SkipResponseNoCall ==
  (Done /\ Command \in {"ask", "diff", "query", "q"} /\ CarriesSkipResponse)
    => /\ rcCalls = << >> /\ qhCalls = << >> /\ netReqs = << >>
       /\ prompt # << >> => stdout = prompt

(***************************************************************************)
(* C3.  No token, no request.                                              *)
(***************************************************************************)
\* C3 as stated: with the token store Unset, every invocation of diff,
\* query, q or ask that has ended failed with NoTokenError and issued no
\* request.  (Fails: the parser, git or reference resolution may end the
\* invocation first.)
C3_AlwaysNoTokenError ==
  (Done /\ storeBefore = Unset /\ Command \in {"ask", "diff", "query", "q"})
    => /\ stderr = << "NoTokenError" >>
       /\ exit # 0
       /\ netReqs = << >>

\* C3 as amended: with the token store Unset, no invocation of diff, query,
\* q or ask issues a request to the remote API or prints a response, and
\* every one that reaches the Response Client with a non-empty prompt ends
\* with NoTokenError and a non-zero status.
C3_NoTokenNoRequest ==
  (storeBefore = Unset /\ Command \in {"ask", "diff", "query", "q"})
    => /\ netReqs = << >>
       /\ ~ResponsePrinted
       /\ (Done /\ rcCalls # << >> /\ rcCalls[1] # << >>)
            => (stderr = << "NoTokenError" >> /\ exit = 1)

\* A diff in a working repository, before any auth, ended with NoTokenError.
C3_Witness ==
  /\ Done /\ storeBefore = Unset /\ Command = "diff" /\ env.git = "ok"
  /\ rcCalls # << >> /\ stderr = << "NoTokenError" >>

(***************************************************************************)
(* C4.  The last auth wins.                                                *)
(***************************************************************************)
\* C4: whenever the latest auth handler run was given a token T, the token
\* store holds exactly T, whatever it held before and whatever ran since.
C4_LastAuthWins ==
  (lastAuth # << >> /\ lastAuth[1] # << >>)
    => store = [set |-> TRUE, value |-> lastAuth[1]]

\* An auth with a token has overwritten a different stored token.
C4_Witness ==
  /\ Done /\ Command = "auth" /\ exit = 0
  /\ HasToken(storeBefore) /\ lastAuth # << >> /\ lastAuth[1] # << >>
  /\ lastAuth[1] # storeBefore.value
  /\ store.value = lastAuth[1]

(***************************************************************************)
(* C5.  No invocation removes the token.                                   *)
(***************************************************************************)
\* C5: whenever an invocation that started with a token in the store has
\* ended, the store still holds a token.  (Fails: `mf auth` without a token
\* passes None to set_token.)
C5_TokenNeverRemoved ==
  (Done /\ HasToken(storeBefore)) => HasToken(store)

C7_NoRequestForEmptyPrompt ==
  /\ \A i \in 1..Len(netReqs) : netReqs[i].prompt # << >>
  /\ (Done /\ prompt = << << >> >>)
       => (stderr = << "EmptyPromptError" >> /\ exit # 0 /\ netReqs = << >>)

\* `mf ask ""` with a token stored ended with EmptyPromptError.
C7_Witness ==
  /\ Done /\ argv = << "ask", "" >> /\ HasToken(storeBefore) /\ env.service = "ok"
  /\ stderr = << "EmptyPromptError" >> /\ netReqs = << >>

(***************************************************************************)
(* C8.  Errors are terminal.                                               *)
(***************************************************************************)
\* C8: whenever a handler run that met an error (or reported one) has
\* ended, the exit status is non-zero, nothing was printed to standard
\* output, the token store is as it was, and standard error carries
\* exactly one error report.
C8_ErrorsTerminal ==
  (Done /\ handlersRun # << >> /\ (ErrorRaised \/ stderr # << >>))
    => /\ exit # 0
       /\ stdout = << >>
       /\ store = storeBefore
       /\ Cardinality(Reports) = 1

\* A request the service failed ended ask with one report and no output.
C8_Witness ==
  /\ Done /\ Command = "ask" /\ netReqs # << >> /\ env.service = "fail"
  /\ stderr = << "ServiceError" >> /\ exit = 1

C10_DisjointEffects ==
  /\ Len(handlersRun) <= 1
  /\ store # storeBefore => handlersRun = << "auth" >>
  /\ handlersRun = << "auth" >>
       => (rcCalls = << >> /\ qhCalls = << >> /\ netReqs = << >> /\ ~ResponsePrinted)
  /\ (handlersRun # << >> /\ handlersRun[1] \in {"ask", "diff", "query", "q"})
       => store = storeBefore

\* ask ended after the service rejected the stored token; the token is still there.
C10_Witness ==
  /\ Done /\ handlersRun = << "ask" >> /\ env.service = "reject"
  /\ netReqs # << >> /\ HasToken(store)

====
